---- MODULE Spec2Model ----
(* A model of AppComponent (the session controller) and of the part of     *)
(* GeminiService it awaits, src/src/app.component.ts.  Every async method  *)
(* is split at its awaits: the part up to the first await is one action,   *)
(* and each resumption (the awaited promise resolving or rejecting) is     *)
(* another.  The environment is a browser: localStorage is defined.  The   *)
(* analysisStatus signal, a caption no method reads, is left out.          *)
EXTENDS Integers, Sequences, FiniteSets, TLC

(***************************************************************************)
(* Bounds                                                                  *)
(***************************************************************************)
MaxQueryLen == 1
MaxPending == 2
MaxHistory == 2
MaxTimestamp == 0
MaxSongs == 1

(***************************************************************************)
(* Values                                                                  *)
(***************************************************************************)
None == <<>>
Some(x) == <<x>>

Song1 == [title |-> "Bojna Cavoglave", album |-> "Moli mala", year |-> "1991", lyrics |-> "L1"]
Song2 == [title |-> "Lijepa li si", album |-> "Vjetar s Dinare", year |-> "1998", lyrics |-> "L2"]
SongCatalog == <<Song1, Song2>>
\* the songs the provider identifies
Songs == {SongCatalog[i] : i \in 1..MaxSongs}

AnalysisTypes == {"theological", "political"}

\* the texts generateAnalysis can return (response.text may be empty)
Texts == {"", "T1"}

\* the values Date.now() can return
Timestamps == 0..MaxTimestamp

Chars == {" ", "a"}
Queries == UNION {[1..n -> Chars] : n \in 0..MaxQueryLen}

AppStates == {"initial", "song_identified", "analyzing", "analysis_complete", "history"}

ErrIdentify == "Nije uspjelo dohvacanje informacija o pjesmi."
ErrIdentifyUnknown == "Doslo je do nepoznate greske pri identifikaciji pjesme."
ErrAnalysis == "Nije uspjelo generiranje analize."
ErrImage == "Nije uspjelo generiranje slike."
ErrWorkflowUnknown == "Doslo je do greske tijekom generiranja analize ili slike."
ErrSave == "Nije moguce spremiti analizu, nedostaju podaci."

(***************************************************************************)
(* String.prototype.trim on a sequence of characters                       *)
(***************************************************************************)
RECURSIVE TrimLeft(_)
TrimLeft(s) == IF s # <<>> /\ Head(s) = " " THEN TrimLeft(Tail(s)) ELSE s

RECURSIVE TrimRight(_)
TrimRight(s) ==
  IF s # <<>> /\ s[Len(s)] = " " THEN TrimRight(SubSeq(s, 1, Len(s) - 1)) ELSE s

\* no trimming: the query is tested as typed
TrimNothing(s) == s

Trim(s) == TrimRight(TrimLeft(s))

(***************************************************************************)
(* JSON text of a history: a sequence of tokens <<tag, value>>.            *)
(***************************************************************************)
LBracket == <<"p", "[">>
RBracket == <<"p", "]">>
LBrace == <<"p", "{">>
RBrace == <<"p", "}">>
EntryWidth == 9

EntryTokens(e) ==
  << LBrace,
     <<"s", e.songInfo.title>>, <<"s", e.songInfo.album>>,
     <<"s", e.songInfo.year>>, <<"s", e.songInfo.lyrics>>,
     <<"s", e.analysisType>>, <<"s", e.analysisResult>>,
     <<"n", e.timestamp>>,
     RBrace >>

RECURSIVE JSONStringify(_)
JSONStringify(h) ==
  IF h = <<>> THEN <<LBracket, RBracket>>
  ELSE <<LBracket>> \o EntryTokens(Head(h))
       \o Tail(JSONStringify(Tail(h)))

IsPunct(t, c) == t[1] = "p" /\ t[2] = c
IsStr(t) == t[1] = "s"
IsNum(t) == t[1] = "n"

EntryWellFormed(c) ==
  /\ Len(c) = EntryWidth
  /\ IsPunct(c[1], "{")
  /\ \A i \in 2..7 : IsStr(c[i])
  /\ IsNum(c[8])
  /\ IsPunct(c[9], "}")

EntryOf(c) ==
  [songInfo |-> [title |-> c[2][2], album |-> c[3][2], year |-> c[4][2], lyrics |-> c[5][2]],
   analysisType |-> c[6][2],
   analysisResult |-> c[7][2],
   timestamp |-> c[8][2]]

Chunk(s, i) == SubSeq(s, 2 + EntryWidth * (i - 1), 1 + EntryWidth * i)

\* JSON.parse: [ok |-> TRUE, value |-> the array] or [ok |-> FALSE] (a SyntaxError)
JSONParse(s) ==
  IF /\ Len(s) >= 2
     /\ IsPunct(s[1], "[")
     /\ IsPunct(s[Len(s)], "]")
     /\ (Len(s) - 2) % EntryWidth = 0
     /\ \A i \in 1..((Len(s) - 2) \div EntryWidth) : EntryWellFormed(Chunk(s, i))
  THEN [ok |-> TRUE,
        value |-> [i \in 1..((Len(s) - 2) \div EntryWidth) |-> EntryOf(Chunk(s, i))]]
  ELSE [ok |-> FALSE, value |-> <<>>]

(***************************************************************************)
(* GeminiService: what each method makes of the provider's response.       *)
(* A result is [ok |-> TRUE, value |-> v] (the promise resolves with v) or *)
(* [ok |-> FALSE, error |-> e] (it rejects with e).                        *)
(***************************************************************************)
Error(m) == [isError |-> TRUE, message |-> m]
Resolved(v) == [ok |-> TRUE, value |-> v, error |-> Error("")]
Rejected(e) == [ok |-> FALSE, value |-> None, error |-> e]

\* provider responses to generateContent in identifySong
IdentifyResponses ==
  {[kind |-> "rejected", song |-> None], [kind |-> "notfound", song |-> None],
   [kind |-> "garbled", song |-> None]}
  \cup {[kind |-> "song", song |-> Some(s)] : s \in Songs}

parseSongInfo(resp) ==
  IF resp.kind = "song" THEN Resolved(resp.song)
  ELSE Rejected(Error("Nije moguce parsirati informacije o pjesmi iz odgovora."))

identifySong(resp) ==
  LET inner == IF resp.kind = "rejected" THEN Rejected(Error("transport"))
               ELSE IF resp.kind = "notfound"
                    THEN Rejected(Error("Pjesma nije pronadena."))
                    ELSE parseSongInfo(resp)
  IN IF inner.ok THEN inner ELSE Rejected(Error(ErrIdentify))

\* provider responses to generateContent in generateAnalysis
AnalysisResponses ==
  {[kind |-> "rejected", text |-> ""]} \cup {[kind |-> "text", text |-> t] : t \in Texts}

generateAnalysis(resp) ==
  IF resp.kind = "text" THEN Resolved(Some(resp.text)) ELSE Rejected(Error(ErrAnalysis))

\* provider responses to generateImages in generateImageForSong
ImageResponses == {"rejected", "empty", "image"}

\* the data URL of the image generated for a title and an analysis
ImageFor(title, analysis) == [title |-> title, analysis |-> analysis]

generateImageForSong(songTitle, analysis, resp) ==
  IF resp = "image" THEN Resolved(Some(ImageFor(songTitle, analysis)))
  ELSE Rejected(Error(ErrImage))

\* error instanceof Error ? error.message : fallback
ErrorText(e, fallback) == IF e.isError THEN e.message ELSE fallback

(***************************************************************************)
(* State                                                                   *)
(***************************************************************************)
VARIABLES
  appState, userInput, songInfo, analysisType, analysisResult, generatedImage,
  isLoading, isLoadingImage, errorMessage,
  history, isCurrentAnalysisSaved,
  store,       \* localStorage item 'analysisHistory': None or Some(text)
  flows,       \* the suspended async method calls, one per slot
  since        \* what happened last, settled calls apart: the controller was
               \* constructed (found: the store it met), "reset", "solo" (a
               \* workflow was started while no call was outstanding), "other"

session == <<appState, userInput, songInfo, analysisType, analysisResult,
             generatedImage, isLoading, isLoadingImage, errorMessage,
             isCurrentAnalysisSaved>>

vars == <<appState, userInput, songInfo, analysisType, analysisResult,
          generatedImage, isLoading, isLoadingImage, errorMessage,
          history, isCurrentAnalysisSaved, store, flows, since>>

Slots == 1..MaxPending

Since(what, found, threw) == [what |-> what, found |-> found, threw |-> threw]

\* a suspended call: the operation awaited and the locals captured
\* (currentSongInfo, type, analysisText)
IdleFlow == [op |-> "idle", song |-> None, type |-> None, text |-> ""]

Outstanding == {s \in Slots : flows[s].op # "idle"}

FreeSlot == CHOOSE s \in Slots : flows[s].op = "idle" /\ \A r \in Slots : flows[r].op = "idle" => s <= r

(***************************************************************************)
(* constructor and loadHistory                                             *)
(***************************************************************************)
\* loadHistory with a catch block that leaves the record in the store
loadHistoryKeepsRecord(h, st) ==
  IF st # None /\ st[1] # <<>> /\ JSONParse(st[1]).ok
  THEN [history |-> JSONParse(st[1]).value, store |-> st, threw |-> FALSE]
  ELSE [history |-> h, store |-> st, threw |-> FALSE]

\* loadHistory on a controller whose history is h, with the store st
loadHistory(h, st) ==
  IF st # None /\ st[1] # <<>>
  THEN LET parsed == JSONParse(st[1])
       IN IF parsed.ok
          THEN [history |-> parsed.value, store |-> st, threw |-> FALSE]
          ELSE [history |-> h, store |-> None, threw |-> FALSE]
  ELSE [history |-> h, store |-> st, threw |-> FALSE]

\* the fields of a controller just constructed over the store st
Constructed(st) ==
  LET loaded == loadHistory(<<>>, st)
  IN [appState |-> "initial", userInput |-> <<>>, songInfo |-> None,
      analysisType |-> None, analysisResult |-> "", generatedImage |-> None,
      isLoading |-> FALSE, isLoadingImage |-> FALSE, errorMessage |-> "",
      history |-> loaded.history,
      isCurrentAnalysisSaved |-> FALSE, store |-> loaded.store,
      threw |-> loaded.threw]

SavedEntry0 ==
  [songInfo |-> Song1, analysisType |-> "theological", analysisResult |-> "T1",
   timestamp |-> 0]

\* what the store may hold when the page is first opened
InitialStores ==
  {None, Some(<<>>), Some(<<LBracket>>), Some(<<LBracket, LBrace, RBracket>>),
   Some(JSONStringify(<<>>)), Some(JSONStringify(<<SavedEntry0>>))}

Init ==
  \E st \in InitialStores :
    LET c == Constructed(st)
    IN /\ appState = c.appState
       /\ userInput = c.userInput
       /\ songInfo = c.songInfo
       /\ analysisType = c.analysisType
       /\ analysisResult = c.analysisResult
       /\ generatedImage = c.generatedImage
       /\ isLoading = c.isLoading
       /\ isLoadingImage = c.isLoadingImage
       /\ errorMessage = c.errorMessage
       /\ history = c.history
       /\ isCurrentAnalysisSaved = c.isCurrentAnalysisSaved
       /\ store = c.store
       /\ flows = [s \in Slots |-> IdleFlow]
       /\ since = Since("construct", Some(st), c.threw)

\* a new controller is constructed over the current store (the page is reloaded)
Reload ==
  LET c == Constructed(store)
  IN /\ appState' = c.appState
     /\ userInput' = c.userInput
     /\ songInfo' = c.songInfo
     /\ analysisType' = c.analysisType
     /\ analysisResult' = c.analysisResult
     /\ generatedImage' = c.generatedImage
     /\ isLoading' = c.isLoading
     /\ isLoadingImage' = c.isLoadingImage
     /\ errorMessage' = c.errorMessage
     /\ history' = c.history
     /\ isCurrentAnalysisSaved' = c.isCurrentAnalysisSaved
     /\ store' = c.store
     /\ flows' = [s \in Slots |-> IdleFlow]
     /\ since' = Since("construct", Some(store), c.threw)

(***************************************************************************)
(* The input box writes userInput                                          *)
(***************************************************************************)
SetUserInput(q) ==
  /\ userInput' = q
  /\ UNCHANGED flows
  /\ since' = Since("other", None, FALSE)
  /\ UNCHANGED <<appState, songInfo, analysisType, analysisResult, generatedImage,
                 isLoading, isLoadingImage, errorMessage, history,
                 isCurrentAnalysisSaved, store>>

(***************************************************************************)
(* handleInitialAnalysis                                                   *)
(***************************************************************************)
\* the early return on an empty or whitespace-only query
HandleInitialAnalysisEmpty ==
  /\ Len(Trim(userInput)) = 0
  /\ UNCHANGED flows
  /\ since' = Since("other", None, FALSE)
  /\ UNCHANGED <<appState, userInput, songInfo, analysisType, analysisResult,
                 generatedImage, isLoading, isLoadingImage, errorMessage, history, isCurrentAnalysisSaved, store>>

\* up to the await of identifySong
HandleInitialAnalysisCall ==
  /\ Len(Trim(userInput)) # 0
  /\ Cardinality(Outstanding) < MaxPending
  /\ isLoading' = TRUE
  /\ errorMessage' = ""
  /\ flows' = [flows EXCEPT ![FreeSlot] =
                 [op |-> "identify", song |-> None, type |-> None, text |-> ""]]
  /\ since' = Since(IF Outstanding = {} THEN "solo" ELSE "other", None, FALSE)
  /\ UNCHANGED <<appState, userInput, songInfo, analysisType, analysisResult,
                 generatedImage, isLoadingImage, history,
                 isCurrentAnalysisSaved, store>>

handleInitialAnalysis == HandleInitialAnalysisEmpty \/ HandleInitialAnalysisCall

\* IdentifySettled that stores no song
IdentifySettledDropsSong(slot, r) ==
  /\ IF r.ok
     THEN /\ appState' = "song_identified"
          /\ UNCHANGED <<errorMessage, songInfo>>
     ELSE /\ errorMessage' = ErrorText(r.error, ErrIdentifyUnknown)
          /\ UNCHANGED <<songInfo, appState>>
  /\ isLoading' = FALSE
  /\ flows' = [flows EXCEPT ![slot] = IdleFlow]
  /\ UNCHANGED <<userInput, analysisType, analysisResult, generatedImage,
                 isLoadingImage, history, isCurrentAnalysisSaved,
                 store, since>>

\* IdentifySettled without the finally block
IdentifySettledNoFinally(slot, r) ==
  /\ IF r.ok
     THEN /\ songInfo' = r.value
          /\ appState' = "song_identified"
          /\ isLoading' = FALSE
          /\ UNCHANGED errorMessage
     ELSE /\ errorMessage' = ErrorText(r.error, ErrIdentifyUnknown)
          /\ UNCHANGED <<songInfo, appState, isLoading>>
  /\ flows' = [flows EXCEPT ![slot] = IdleFlow]
  /\ UNCHANGED <<userInput, analysisType, analysisResult, generatedImage,
                 isLoadingImage, history, isCurrentAnalysisSaved,
                 store, since>>

\* the resumption after the await: try, catch, finally
IdentifySettled(slot, r) ==
  /\ IF r.ok
     THEN /\ songInfo' = r.value
          /\ appState' = "song_identified"
          /\ UNCHANGED errorMessage
     ELSE /\ errorMessage' = ErrorText(r.error, ErrIdentifyUnknown)
          /\ UNCHANGED <<songInfo, appState>>
  /\ isLoading' = FALSE
  /\ flows' = [flows EXCEPT ![slot] = IdleFlow]
  /\ UNCHANGED <<userInput, analysisType, analysisResult, generatedImage,
                 isLoadingImage, history, isCurrentAnalysisSaved,
                 store, since>>

IdentifySettle(slot, resp) ==
  /\ flows[slot].op = "identify"
  /\ IdentifySettled(slot, identifySong(resp))

(***************************************************************************)
(* performAnalysis                                                         *)
(***************************************************************************)
\* the early return when there is no song
PerformAnalysisNoSong ==
  /\ songInfo = None
  /\ UNCHANGED flows
  /\ since' = Since("other", None, FALSE)
  /\ UNCHANGED <<appState, userInput, songInfo, analysisType, analysisResult,
                 generatedImage, isLoading, isLoadingImage, errorMessage, history, isCurrentAnalysisSaved, store>>

\* up to the await of generateAnalysis
PerformAnalysisCall(type) ==
  /\ songInfo # None
  /\ Cardinality(Outstanding) < MaxPending
  /\ analysisType' = Some(type)
  /\ appState' = "analyzing"
  /\ isLoading' = TRUE
  /\ isLoadingImage' = TRUE
  /\ errorMessage' = ""
  /\ analysisResult' = ""
  /\ generatedImage' = None
  /\ isCurrentAnalysisSaved' = FALSE
  /\ flows' = [flows EXCEPT ![FreeSlot] =
                 [op |-> "analyze", song |-> songInfo, type |-> Some(type),
                  text |-> ""]]
  /\ since' = Since(IF Outstanding = {} THEN "solo" ELSE "other", None, FALSE)
  /\ UNCHANGED <<userInput, songInfo, history, store>>

performAnalysis(type) == PerformAnalysisNoSong \/ PerformAnalysisCall(type)

\* WorkflowRejected without the finally block
WorkflowRejectedNoFinally(slot, e) ==
  /\ errorMessage' = ErrorText(e, ErrWorkflowUnknown)
  /\ appState' = "song_identified"
  /\ UNCHANGED <<isLoading, isLoadingImage>>
  /\ flows' = [flows EXCEPT ![slot] = IdleFlow]

\* WorkflowRejected without the step back to the selection
WorkflowRejectedStays(slot, e) ==
  /\ errorMessage' = ErrorText(e, ErrWorkflowUnknown)
  /\ UNCHANGED appState
  /\ isLoading' = FALSE
  /\ isLoadingImage' = FALSE
  /\ flows' = [flows EXCEPT ![slot] = IdleFlow]

\* the catch and finally blocks, for an error thrown by either await
WorkflowRejected(slot, e) ==
  /\ errorMessage' = ErrorText(e, ErrWorkflowUnknown)
  /\ appState' = "song_identified"
  /\ isLoading' = FALSE
  /\ isLoadingImage' = FALSE
  /\ flows' = [flows EXCEPT ![slot] = IdleFlow]

\* AnalyzeResolved that leaves the state change for after the image
AnalyzeResolvedLate(slot, text) ==
  /\ analysisResult' = text
  /\ isLoading' = FALSE
  /\ flows' = [flows EXCEPT ![slot] = [@ EXCEPT !.op = "illustrate", !.text = text]]
  /\ UNCHANGED <<errorMessage, isLoadingImage, appState>>

\* generateAnalysis resolved: up to the await of generateImageForSong
AnalyzeResolved(slot, text) ==
  /\ analysisResult' = text
  /\ appState' = "analysis_complete"
  /\ isLoading' = FALSE
  /\ flows' = [flows EXCEPT ![slot] = [@ EXCEPT !.op = "illustrate", !.text = text]]
  /\ UNCHANGED <<errorMessage, isLoadingImage>>

AnalyzeSettle(slot, resp) ==
  /\ flows[slot].op = "analyze"
  /\ LET r == generateAnalysis(resp)
     IN /\ IF r.ok
           THEN AnalyzeResolved(slot, r.value[1])
           ELSE WorkflowRejected(slot, r.error) /\ UNCHANGED analysisResult
  /\ UNCHANGED <<userInput, songInfo, analysisType, generatedImage, history,
                 isCurrentAnalysisSaved, store, since>>

\* generateImageForSong resolved: the rest of the try block, and finally
IllustrateResolved(slot, imageUrl) ==
  /\ generatedImage' = imageUrl
  /\ isLoading' = FALSE
  /\ isLoadingImage' = FALSE
  /\ flows' = [flows EXCEPT ![slot] = IdleFlow]
  /\ UNCHANGED <<errorMessage, appState>>

IllustrateSettle(slot, resp) ==
  /\ flows[slot].op = "illustrate"
  /\ LET r == generateImageForSong(flows[slot].song[1].title, flows[slot].text, resp)
     IN /\ IF r.ok
           THEN IllustrateResolved(slot, r.value)
           ELSE WorkflowRejected(slot, r.error) /\ UNCHANGED generatedImage
  /\ UNCHANGED <<userInput, songInfo, analysisType, analysisResult,
                 history, isCurrentAnalysisSaved, store, since>>

(***************************************************************************)
(* reset                                                                   *)
(***************************************************************************)
\* reset that forgets the image
resetKeepsImage ==
  /\ appState' = "initial"
  /\ userInput' = <<>>
  /\ songInfo' = None
  /\ analysisType' = None
  /\ analysisResult' = ""
  /\ isLoading' = FALSE
  /\ isLoadingImage' = FALSE
  /\ errorMessage' = ""
  /\ isCurrentAnalysisSaved' = FALSE
  /\ UNCHANGED <<generatedImage, flows>>
  /\ since' = Since("reset", None, FALSE)
  /\ UNCHANGED <<history, store>>

reset ==
  /\ appState' = "initial"
  /\ userInput' = <<>>
  /\ songInfo' = None
  /\ analysisType' = None
  /\ analysisResult' = ""
  /\ generatedImage' = None
  /\ isLoading' = FALSE
  /\ isLoadingImage' = FALSE
  /\ errorMessage' = ""
  /\ isCurrentAnalysisSaved' = FALSE
  /\ UNCHANGED flows
  /\ since' = Since("reset", None, FALSE)
  /\ UNCHANGED <<history, store>>

(***************************************************************************)
(* saveAnalysis                                                            *)
(***************************************************************************)
\* the check of line 132 without the result
SaveDataMissingNoResult == songInfo = None \/ analysisType = None

\* !song || !type || !result
SaveDataMissing == songInfo = None \/ analysisType = None \/ analysisResult = ""

SaveMissing ==
  /\ errorMessage' = ErrSave
  /\ UNCHANGED <<history, store, isCurrentAnalysisSaved>>

\* SaveEntry that adds the entry at the end
SaveEntryAppends(now) ==
  LET newAnalysis == [songInfo |-> songInfo[1], analysisType |-> analysisType[1],
                      analysisResult |-> analysisResult, timestamp |-> now]
  IN /\ history' = history \o <<newAnalysis>>
     /\ store' = Some(JSONStringify(history'))
     /\ isCurrentAnalysisSaved' = TRUE
     /\ UNCHANGED errorMessage

\* SaveEntry that writes the history as it was before the entry was added
SaveEntryStaleWrite(now) ==
  LET newAnalysis == [songInfo |-> songInfo[1], analysisType |-> analysisType[1],
                      analysisResult |-> analysisResult, timestamp |-> now]
  IN /\ history' = <<newAnalysis>> \o history
     /\ store' = Some(JSONStringify(history))
     /\ isCurrentAnalysisSaved' = TRUE
     /\ UNCHANGED errorMessage

SaveEntry(now) ==
  LET newAnalysis == [songInfo |-> songInfo[1], analysisType |-> analysisType[1],
                      analysisResult |-> analysisResult, timestamp |-> now]
  IN /\ history' = <<newAnalysis>> \o history
     /\ store' = Some(JSONStringify(history'))
     /\ isCurrentAnalysisSaved' = TRUE
     /\ UNCHANGED errorMessage

saveAnalysis ==
  /\ IF SaveDataMissing
     THEN SaveMissing
     ELSE /\ Len(history) < MaxHistory
          /\ \E now \in Timestamps : SaveEntry(now)
  /\ UNCHANGED flows
  /\ since' = Since("other", None, FALSE)
  /\ UNCHANGED <<appState, userInput, songInfo, analysisType, analysisResult,
                 generatedImage, isLoading, isLoadingImage>>

(***************************************************************************)
(* showHistory, clearHistory                                               *)
(***************************************************************************)
showHistory ==
  /\ appState' = "history"
  /\ UNCHANGED flows
  /\ since' = Since("other", None, FALSE)
  /\ UNCHANGED <<userInput, songInfo, analysisType, analysisResult, generatedImage,
                 isLoading, isLoadingImage, errorMessage, history,
                 isCurrentAnalysisSaved, store>>

\* clearHistory that does not ask
clearHistoryUnasked(confirmed) ==
  /\ history' = <<>>
  /\ store' = None
  /\ UNCHANGED flows
  /\ since' = Since("other", None, FALSE)
  /\ UNCHANGED <<appState, userInput, songInfo, analysisType, analysisResult,
                 generatedImage, isLoading, isLoadingImage, errorMessage, isCurrentAnalysisSaved>>

\* confirmed: what the user answers to confirm()
clearHistory(confirmed) ==
  /\ IF confirmed
     THEN history' = <<>> /\ store' = None
     ELSE UNCHANGED <<history, store>>
  /\ UNCHANGED flows
  /\ since' = Since("other", None, FALSE)
  /\ UNCHANGED <<appState, userInput, songInfo, analysisType, analysisResult,
                 generatedImage, isLoading, isLoadingImage, errorMessage, isCurrentAnalysisSaved>>

Next ==
  \/ Reload
  \/ \E q \in Queries : SetUserInput(q)
  \/ handleInitialAnalysis
  \/ \E slot \in Slots, resp \in IdentifyResponses : IdentifySettle(slot, resp)
  \/ \E type \in AnalysisTypes : performAnalysis(type)
  \/ \E slot \in Slots, resp \in AnalysisResponses : AnalyzeSettle(slot, resp)
  \/ \E slot \in Slots, resp \in ImageResponses : IllustrateSettle(slot, resp)
  \/ reset
  \/ saveAnalysis
  \/ showHistory
  \/ \E confirmed \in BOOLEAN : clearHistory(confirmed)

Spec == Init /\ [][Next]_vars

TypeOK ==
  /\ appState \in AppStates
  /\ userInput \in Queries
  /\ isLoading \in BOOLEAN
  /\ isLoadingImage \in BOOLEAN
  /\ Len(history) <= MaxHistory

(***************************************************************************)
(* Steps and states the properties speak of                                *)
(***************************************************************************)
\* no user action since reset()
AfterReset == since.what = "reset"

\* a workflow was started while no call was outstanding, and the user has done
\* nothing since
Solo == since.what = "solo"

IdentifySettles == \E slot \in Slots, resp \in IdentifyResponses : IdentifySettle(slot, resp)
AnalyzeSettles == \E slot \in Slots, resp \in AnalysisResponses : AnalyzeSettle(slot, resp)
IllustrateSettles == \E slot \in Slots, resp \in ImageResponses : IllustrateSettle(slot, resp)

SessionUntouched ==
  /\ appState = "initial"
  /\ songInfo = None
  /\ analysisResult = ""
  /\ generatedImage = None
  /\ errorMessage = ""

IllustrateCalls(f) == {s \in Slots : f[s].op = "illustrate"}

(***************************************************************************)
(* C1: when reset() is called while a provider call is outstanding and no  *)
(* other user action follows, the call's later resolution or failure       *)
(* leaves the session untouched (initial, no song, no result, no image, no *)
(* error).                                                                 *)
(***************************************************************************)
C1_StaleResultIgnoredAfterReset ==
  [][(AfterReset /\ (IdentifySettles \/ AnalyzeSettles \/ IllustrateSettles))
       => SessionUntouched']_vars

(***************************************************************************)
(* C2: when analyze succeeded and illustrate then fails, with no user      *)
(* action in between, the controller ends in 'analysis_complete' with the  *)
(* analysis text kept, an error message and no image.                      *)
(***************************************************************************)
C2_IllustrateFailureKeepsAnalysis ==
  [][\A slot \in Slots, resp \in ImageResponses \ {"image"} :
       (Solo /\ IllustrateSettle(slot, resp))
         => /\ appState' = "analysis_complete"
            /\ analysisResult' = flows[slot].text
            /\ errorMessage' # ""
            /\ generatedImage' = None]_vars

(***************************************************************************)
(* C3: when the analyze call fails, the controller is left in              *)
(* 'song_identified' with an error message, the workflow has ended without *)
(* calling illustrate, and, the workflow having run alone, with no         *)
(* analysis result and no image.                                           *)
(***************************************************************************)
C3_AnalyzeFailureReverts ==
  [][\A slot \in Slots :
       AnalyzeSettle(slot, [kind |-> "rejected", text |-> ""])
         => /\ appState' = "song_identified"
            /\ errorMessage' # ""
            /\ flows'[slot].op = "idle"
            /\ IllustrateCalls(flows') = IllustrateCalls(flows)
            /\ Solo => (analysisResult' = "" /\ generatedImage' = None
                        /\ Outstanding' = {})]_vars

C3_Witness ==
  /\ Solo
  /\ appState = "song_identified"
  /\ errorMessage = ErrAnalysis
  /\ analysisType # None
  /\ Outstanding = {}

(***************************************************************************)
(* C4: as soon as analyze resolves, appState is 'analysis_complete' with   *)
(* analysisResult the text returned, isLoading false and the illustrate    *)
(* call outstanding (isLoadingImage still true when the workflow runs      *)
(* alone); when illustrate resolves, generatedImage is its image and       *)
(* appState and analysisResult do not change, so a workflow run alone ends *)
(* in 'analysis_complete' with its result and its image.                   *)
(***************************************************************************)
C4_AnalysisCompleteBeforeImage ==
  [][/\ \A slot \in Slots, t \in Texts :
          AnalyzeSettle(slot, [kind |-> "text", text |-> t])
            => /\ appState' = "analysis_complete"
               /\ analysisResult' = t
               /\ ~isLoading'
               /\ flows'[slot].op = "illustrate"
               /\ Solo => isLoadingImage'
     /\ \A slot \in Slots :
          IllustrateSettle(slot, "image")
            => /\ generatedImage' = Some(ImageFor(flows[slot].song[1].title, flows[slot].text))
               /\ UNCHANGED <<appState, analysisResult>>
               /\ Solo => /\ appState' = "analysis_complete"
                          /\ analysisResult' = flows[slot].text
                          /\ ~isLoading' /\ ~isLoadingImage'
                          /\ Outstanding' = {}]_vars

C4_Witness ==
  /\ Solo
  /\ appState = "analysis_complete"
  /\ analysisResult = "T1"
  /\ generatedImage = Some(ImageFor(Song1.title, "T1"))
  /\ Outstanding = {}

(***************************************************************************)
(* C5: at most one provider call issued by the controller is outstanding   *)
(* at any time.                                                            *)
(***************************************************************************)
C5_OneCallOutstanding == Cardinality(Outstanding) <= 1

(***************************************************************************)
(* C6: saveAnalysis() with songInfo, analysisType or analysisResult absent *)
(* changes neither the history nor the store nor appState nor              *)
(* isCurrentAnalysisSaved, and sets the 'missing data' error message.      *)
(***************************************************************************)
C6_SaveWithoutDataIsNoOp ==
  [][(saveAnalysis /\ (songInfo = None \/ analysisType = None \/ analysisResult = ""))
       => /\ UNCHANGED <<history, store, appState, isCurrentAnalysisSaved>>
          /\ errorMessage' = ErrSave]_vars

C6_Witness ==
  /\ errorMessage = ErrSave
  /\ songInfo # None
  /\ analysisType # None
  /\ analysisResult = ""
  /\ history # <<>>

(***************************************************************************)
(* C7: saveAnalysis() with song, type and result present puts the new      *)
(* entry {songInfo, analysisType, analysisResult, timestamp} in front of   *)
(* the previous history, sets isCurrentAnalysisSaved and leaves appState;  *)
(* each repeated save adds one more entry, duplicates included.            *)
(***************************************************************************)
C7_SavePrepends ==
  [][(saveAnalysis /\ songInfo # None /\ analysisType # None /\ analysisResult # "")
       => /\ \E now \in Timestamps :
               history' = <<[songInfo |-> songInfo[1], analysisType |-> analysisType[1],
                             analysisResult |-> analysisResult, timestamp |-> now]>>
                          \o history
          /\ isCurrentAnalysisSaved'
          /\ UNCHANGED appState]_vars

\* the same result saved twice in a row
C7_Witness ==
  /\ Len(history) = 2
  /\ history[1] = history[2]
  /\ isCurrentAnalysisSaved
  /\ songInfo = Some(history[1].songInfo)
  /\ analysisResult = history[1].analysisResult

(***************************************************************************)
(* C8: in every reachable state, a controller constructed over the         *)
(* persisted store loads exactly the in-memory history, entries and order, *)
(* and an empty history when the store holds no record.                    *)
(***************************************************************************)
C8_PersistedHistoryRoundTrips ==
  /\ loadHistory(<<>>, store).history = history
  /\ store = None => history = <<>>

\* two different entries were saved and a new controller has loaded them
C8_Witness ==
  /\ since.what = "construct"
  /\ Len(history) = 2
  /\ history[1].analysisType # history[2].analysisType

(***************************************************************************)
(* C9: a controller constructed over a store whose content cannot be       *)
(* parsed has an empty history, is in 'initial' with no error message, its *)
(* constructor has not thrown, and the record has been removed.            *)
(***************************************************************************)
Malformed(st) == st # None /\ ~JSONParse(st[1]).ok

C9_MalformedRecordRemoved ==
  (since.what = "construct" /\ Malformed(since.found[1]))
    => /\ history = <<>>
       /\ store = None
       /\ ~since.threw
       /\ appState = "initial"
       /\ errorMessage = ""

\* C9 as amended: the record is removed unless it is the empty string, which
\* is left in the store
C9_MalformedRecordDiscarded ==
  (since.what = "construct" /\ Malformed(since.found[1]))
    => /\ history = <<>>
       /\ store = IF since.found[1][1] = <<>> THEN since.found[1] ELSE None
       /\ ~since.threw
       /\ appState = "initial"
       /\ errorMessage = ""

C9_Witness ==
  /\ since.what = "construct"
  /\ since.found = Some(Some(<<LBracket, LBrace, RBracket>>))
  /\ store = None

(***************************************************************************)
(* C10: reset() sets every session field to its initial default and        *)
(* changes neither the history nor the store.                              *)
(***************************************************************************)
C10_ResetRestoresDefaults ==
  [][reset
       => /\ appState' = "initial"
          /\ userInput' = <<>>
          /\ songInfo' = None
          /\ analysisType' = None
          /\ analysisResult' = ""
          /\ generatedImage' = None
          /\ ~isLoading'
          /\ ~isLoadingImage'
          /\ errorMessage' = ""
          /\ ~isCurrentAnalysisSaved'
          /\ UNCHANGED <<history, store>>]_vars

\* reset() has been called with a call outstanding and a saved history
C10_Witness ==
  /\ AfterReset
  /\ Outstanding # {}
  /\ history # <<>>
  /\ store # None

(***************************************************************************)
(* C11: right after a user action begins (handleInitialAnalysis with a     *)
(* non-empty query, performAnalysis, saveAnalysis, reset, showHistory,     *)
(* clearHistory), errorMessage is empty or is the message that action      *)
(* itself produced.                                                        *)
(***************************************************************************)
C11_ErrorClearedByNextAction ==
  [][/\ (HandleInitialAnalysisCall \/ reset \/ showHistory
           \/ (\E type \in AnalysisTypes : performAnalysis(type))
           \/ (\E confirmed \in BOOLEAN : clearHistory(confirmed)))
          => errorMessage' = ""
     /\ saveAnalysis
          => errorMessage' = IF songInfo = None \/ analysisType = None \/ analysisResult = ""
                             THEN ErrSave ELSE ""]_vars

(***************************************************************************)
(* C12: handleInitialAnalysis with an empty or whitespace-only userInput   *)
(* calls nothing and changes no field of the controller, in any state.     *)
(***************************************************************************)
Blank(q) == \A i \in 1..Len(q) : q[i] = " "

\* C12: a submission of a blank query changes nothing
C12_EmptyQueryIsNoOp ==
  [][(handleInitialAnalysis /\ Blank(userInput))
       => UNCHANGED <<appState, userInput, songInfo, analysisType, analysisResult,
                      generatedImage, isLoading, isLoadingImage, errorMessage,
                      history, isCurrentAnalysisSaved, store, flows>>]_vars

\* handleInitialAnalysis is called with a whitespace-only query while a song is
\* identified and an error message is shown: the call ends in the state it was
\* made in
C12_Witness ==
  /\ ENABLED HandleInitialAnalysisEmpty
  /\ since.what = "other"
  /\ userInput = <<" ">>
  /\ appState = "song_identified"
  /\ errorMessage # ""

(***************************************************************************)
(* C13: when identify resolves with a song, the controller is in           *)
(* 'song_identified' with songInfo the song returned and isLoading false;  *)
(* errorMessage is empty when the submission ran alone.                    *)
(***************************************************************************)
C13_IdentifySuccessStoresSong ==
  [][\A slot \in Slots, s \in Songs :
       IdentifySettle(slot, [kind |-> "song", song |-> Some(s)])
         => /\ appState' = "song_identified"
            /\ songInfo' = Some(s)
            /\ ~isLoading'
            /\ Solo => (errorMessage' = "" /\ Outstanding' = {})]_vars

C13_Witness ==
  /\ Solo
  /\ appState = "song_identified"
  /\ songInfo = Some(Song1)
  /\ analysisType = None
  /\ errorMessage = ""
  /\ ~isLoading
  /\ Outstanding = {}

(***************************************************************************)
(* C14: when the identify call fails (the request rejected, the song not   *)
(* found, the response not parsable), appState and songInfo stay as they   *)
(* were ('initial' and null for a query submitted in 'initial'),           *)
(* errorMessage is a non-empty message and isLoading is false.             *)
(***************************************************************************)
C14_IdentifyFailureStays ==
  [][\A slot \in Slots, resp \in IdentifyResponses :
       (resp.kind # "song" /\ IdentifySettle(slot, resp))
         => /\ UNCHANGED <<appState, songInfo>>
            /\ errorMessage' # ""
            /\ errorMessage' = ErrIdentify
            /\ ~isLoading'
            /\ flows'[slot].op = "idle"]_vars

C14_Witness ==
  /\ Solo
  /\ appState = "initial"
  /\ songInfo = None
  /\ errorMessage = ErrIdentify
  /\ ~isLoading
  /\ Outstanding = {}

(***************************************************************************)
(* C15: clearHistory() empties the history and removes the persisted copy  *)
(* when the confirmation is accepted, leaves both when it is declined, and *)
(* changes no session field either way.                                    *)
(***************************************************************************)
C15_ClearHistoryOnlyWhenConfirmed ==
  [][\A confirmed \in BOOLEAN :
       clearHistory(confirmed)
         => /\ IF confirmed
               THEN history' = <<>> /\ store' = None
               ELSE UNCHANGED <<history, store>>
            /\ UNCHANGED <<appState, songInfo, analysisType, analysisResult,
                           generatedImage, isLoading, isLoadingImage>>]_vars

\* the history was cleared after the analysis shown was saved: the saved flag
\* is set only by a save, which leaves the history non-empty
C15_Witness ==
  /\ isCurrentAnalysisSaved
  /\ history = <<>>
  /\ store = None
  /\ appState = "analysis_complete"
  /\ generatedImage # None

(***************************************************************************)
(* C16: appState changes only along the transitions of the state machine:  *)
(* initial to song_identified when identify resolves, song_identified to   *)
(* analyzing on performAnalysis, analyzing to analysis_complete or back to *)
(* song_identified when analyze settles, any state to initial on reset (or *)
(* on a new controller), initial to history on showHistory.                *)
(***************************************************************************)
C16_TransitionsFollowStateMachine ==
  [][appState' # appState
       => \/ appState = "initial" /\ appState' = "song_identified" /\ IdentifySettles
          \/ /\ appState = "song_identified" /\ appState' = "analyzing"
             /\ \E type \in AnalysisTypes : performAnalysis(type)
          \/ appState = "analyzing" /\ appState' = "analysis_complete" /\ AnalyzeSettles
          \/ appState = "analyzing" /\ appState' = "song_identified" /\ AnalyzeSettles
          \/ appState' = "initial" /\ (reset \/ Reload)
          \/ appState = "initial" /\ appState' = "history" /\ showHistory]_vars

(***************************************************************************)
(* C18: whenever generatedImage is set, it is the image generated for the  *)
(* current song and the analysis text currently held in analysisResult.    *)
(***************************************************************************)
C18_ImageBelongsToCurrentAnalysis ==
  generatedImage # None
    => /\ songInfo # None
       /\ analysisType # None
       /\ generatedImage = Some(ImageFor(songInfo[1].title, analysisResult))

(***************************************************************************)
(* C19: in 'song_identified', 'analyzing' and 'analysis_complete' songInfo *)
(* is set, and in 'analyzing' and 'analysis_complete' analysisType is set. *)
(***************************************************************************)
C19_StateImpliesPayload ==
  /\ appState \in {"song_identified", "analyzing", "analysis_complete"} => songInfo # None
  /\ appState \in {"analyzing", "analysis_complete"} => analysisType # None

(***************************************************************************)
(* C20: whenever isCurrentAnalysisSaved is true, the history holds an      *)
(* entry with the current songInfo, analysisType and analysisResult.       *)
(***************************************************************************)
C20_SavedFlagMeansInHistory ==
  isCurrentAnalysisSaved
    => /\ songInfo # None
       /\ analysisType # None
       /\ \E i \in 1..Len(history) :
            /\ history[i].songInfo = songInfo[1]
            /\ history[i].analysisType = analysisType[1]
            /\ history[i].analysisResult = analysisResult

(***************************************************************************)
(* C17: when every provider call issued eventually resolves or fails and   *)
(* the user eventually stops acting, the controller eventually stays with  *)
(* isLoading and isLoadingImage false and appState other than 'analyzing'. *)
(***************************************************************************)
\* the call suspended in a slot settles
SettleSlot(slot) ==
  \/ \E resp \in IdentifyResponses : IdentifySettle(slot, resp)
  \/ \E resp \in AnalysisResponses : AnalyzeSettle(slot, resp)
  \/ \E resp \in ImageResponses : IllustrateSettle(slot, resp)

\* every provider call issued eventually resolves or fails
FairSpec == Init /\ [][Next]_vars /\ \A slot \in Slots : WF_vars(SettleSlot(slot))

Interactive ==
  /\ ~isLoading
  /\ ~isLoadingImage
  /\ appState \in {"initial", "song_identified", "analysis_complete", "history"}

\* from some point on the only steps are calls settling
UserStops == <>[][\E slot \in Slots : SettleSlot(slot)]_vars

\* C17: once the user stops and every call has settled, the controller stays
\* interactive: both loading flags false and appState not 'analyzing'
C17_NoFailureLeavesControllerStuck == UserStops => <>[]Interactive

\* a workflow failed and the controller is interactive again
C17_Witness ==
  /\ Interactive
  /\ Outstanding = {}
  /\ errorMessage = ErrImage
  /\ appState = "song_identified"

====
